---- MODULE Spec2Model ----
(***************************************************************************)
(* Model of 0x02-redis_basic/exercise.py: the count_calls and call_history *)
(* decorators, the Cache class over a Redis database, the module-level     *)
(* get_int function and replay.                                            *)
(*                                                                         *)
(* The Redis database is shared state.  Every Redis command is one atomic  *)
(* step; a Python call that issues several commands is several steps, so   *)
(* that other clients can run between them.                                *)
(***************************************************************************)
EXTENDS Integers, Sequences, FiniteSets, TLC

\* ------------------------------------------------------------------ bounds
\* Total number of store() calls that may be started in one behaviour.
MaxCalls == 2

\* Largest number whose decimal text int() is asked to parse.
MaxInt == 130

\* ------------------------------------------------------ Python/Redis values
\* A value is a record [t |-> <type>, v |-> <payload>].  Text and byte
\* strings carry their characters, an int carries its number, a float its
\* repr, a list its repr.
None == [t |-> "NoneType", v |-> "None"]
VStr(s) == [t |-> "str", v |-> s]
VBytes(s) == [t |-> "bytes", v |-> s]
VInt(n) == [t |-> "int", v |-> n]
VFloat(r) == [t |-> "float", v |-> r]
VList(r) == [t |-> "list", v |-> r]

\* Results of an operation: a returned value or a raised exception.
Ret(x) == [kind |-> "return", val |-> x]
Raise(e) == [kind |-> "raise", val |-> e]

Digits == <<"0", "1", "2", "3", "4", "5", "6", "7", "8", "9">>

\* Decimal text of a natural number (Python str(int), Redis integer reply).
RECURSIVE IntToText(_)
IntToText(n) ==
    IF n < 10 THEN Digits[n + 1]
    ELSE IntToText(n \div 10) \o Digits[(n % 10) + 1]

\* The numbers whose decimal text the model can parse back.
Parsable == 0..MaxInt

IntTexts == [n \in Parsable |-> IntToText(n)]

IsIntText(s) == \E n \in Parsable : IntTexts[n] = s

TextToInt(s) == CHOOSE n \in Parsable : IntTexts[n] = s

\* Python str(x).
PyStr(x) ==
    CASE x.t = "str" -> x.v
      [] x.t = "bytes" -> "b'" \o x.v \o "'"
      [] x.t = "int" -> IntToText(x.v)
      [] OTHER -> x.v

\* Python repr(x), as used for the elements of a tuple by str(tuple).
PyRepr(x) ==
    CASE x.t = "str" -> "'" \o x.v \o "'"
      [] x.t = "bytes" -> "b'" \o x.v \o "'"
      [] x.t = "int" -> IntToText(x.v)
      [] OTHER -> x.v

\* str(args) for the one-element positional tuple (data,).
StrArgs(data) == "(" \o PyRepr(data) \o ",)"

\* Python int(x): parses bytes or text, raises on None or on non-digits.
PyInt(x) ==
    CASE x.t = "int" -> Ret(x)
      [] x.t \in {"bytes", "str"} ->
            IF IsIntText(x.v) THEN Ret(VInt(TextToInt(x.v)))
            ELSE Raise("ValueError")
      [] OTHER -> Raise("TypeError")

\* bytes.decode("utf-8"); any other type has no decode attribute.
Decode(x) ==
    IF x.t = "bytes" THEN Ret(VStr(x.v)) ELSE Raise("AttributeError")

\* Variant: a client that also turns a list into text.
Encodable_Permissive == {"str", "bytes", "int", "float", "list"}

\* The types redis-py can encode as a command argument.
Encodable == {"str", "bytes", "int", "float"}

\* redis-py's encoding of a command argument to the bytes Redis stores.
Encode(x) ==
    CASE x.t = "bytes" -> x
      [] x.t = "str" -> VBytes(x.v)
      [] x.t = "int" -> VBytes(IntToText(x.v))
      [] OTHER -> VBytes(x.v)

\* ---------------------------------------------------------------- inputs
\* The data arguments callers pass to store(): the four allowed scalar types
\* and one value redis-py cannot encode.
DataValues ==
    {VStr("foo"), VInt(123), VBytes("foo"), VFloat("1.5"), VList("[]")}

\* The data arguments used when several callers run against one store: one
\* value the client can encode and one it cannot.
SharedDataValues == {VStr("foo"), VList("[]")}

\* Variant: the same key text for every call.
UuidText_Fixed(i) == "uuid-1"

\* The values uuid.uuid4() produces, as the text str() gives them.  They are
\* modelled up to renaming: the i-th value generated is named uuid-i.
UuidText(i) == "uuid-" \o IntToText(i)

UUIDs == {UuidText(i) : i \in 1..MaxCalls}

\* The transforms passed to get(): no transform, int, str, and
\* lambda d: d.decode("utf-8").
Transforms == {"none", "int", "str", "decode"}

\* The callers of the facade.
Threads == {"c1", "c2"}

\* method.__qualname__ of the wrapped store, kept by functools.wraps.
QualName == "Cache.store"

\* The attributes the class statement of Cache defines.
CacheMethods == {"__init__", "store", "get", "get_str"}

\* ----------------------------------------------------------------- state
VARIABLES
    counter,    \* Redis key "Cache.store": None (absent) or an int value
    inputs,     \* Redis list "Cache.store:inputs": entries [val, by]
    outputs,    \* Redis list "Cache.store:outputs": entries [val, by]
    kv,         \* Redis string keys written by store(): uuid text -> value
    pc,         \* per caller: position in the operation it is running
    loc,        \* per caller: local variables of the running operation
    issued,     \* number of values uuid4() has produced so far
    nCalls,     \* number of store() calls started so far
    hist,       \* finished store() calls since the last construction
    spanned,    \* the last construction happened while a call was running
    out         \* the operation the last step finished, if it finished one

vars ==
    <<counter, inputs, outputs, kv, pc, loc, issued, nCalls, hist, spanned,
      out>>

\* Local variables of a caller that is not inside an operation.
BlankLoc ==
    [arg |-> None, key |-> None, id |-> 0, rcount |-> None,
     rins |-> <<>>, printed |-> <<>>, seenCount |-> None, seenIns |-> <<>>]

\* What the store held when replay read it: the counter and the entries of
\* the two lists (nothing for other operations).
NoReads == [count |-> None, ins |-> <<>>, outs |-> <<>>]

\* An operation that finished: its name, its key and transform arguments,
\* the value the store held under the key, its result, what it printed and
\* what the store held when replay read it.
Finished(op, k, fn, stored, res, printed, reads) ==
    [op |-> op, key |-> k, fn |-> fn, stored |-> stored, res |-> res,
     printed |-> printed, reads |-> reads]

\* The last step finished no operation.
NoOut == Finished("none", "-", "-", None, Ret(None), <<>>, NoReads)

\* A finished store() call of caller c: its number, its argument, the key
\* it wrote (None if it wrote none), its result, and the step that raised
\* ("-" if it returned).
CallRecord(c, res, at) ==
    [id |-> loc[c].id, data |-> loc[c].arg, key |-> loc[c].key, res |-> res,
     at |-> at]

\* The positions of a store() call after its input was appended and before
\* its output is appended.
MidCall == {"store_body", "record_output"}

InCall == {"record_input"} \cup MidCall

Init ==
    /\ counter = None
    /\ inputs = <<>>
    /\ outputs = <<>>
    /\ kv = [k \in UUIDs |-> None]
    /\ pc = [c \in Threads |-> "idle"]
    /\ loc = [c \in Threads |-> BlankLoc]
    /\ issued = 0
    /\ nCalls = 0
    /\ hist = <<>>
    /\ spanned = FALSE
    /\ out = NoOut

\* ------------------------------------------------------- Redis commands
\* INCR: an absent key counts as 0.
RedisIncr(v) == IF v = None THEN VInt(1) ELSE VInt(v.v + 1)

\* GET of the counter key: the stored integer as bytes, or None.
RedisGetCounter(v) == IF v = None THEN None ELSE Encode(v)

\* Variant: LPUSH, which inserts at the head.
RedisRpush_Lpush(list, entry) == <<entry>> \o list

\* RPUSH: append at the tail.
RedisRpush(list, entry) == Append(list, entry)

\* EXISTS: the number of the given keys that exist.
RedisExists(v) == IF v = None THEN 0 ELSE 1

\* ---------------------------------------------------------- Cache.__init__
\* Variant: the constructor connects and does not flush.
Construct_NoFlush(c) ==
    /\ pc[c] = "idle"
    /\ out' = Finished("__init__", "-", "-", None, Ret(None), <<>>, NoReads)
    /\ UNCHANGED <<counter, inputs, outputs, kv, hist, spanned, pc, loc,
                   issued, nCalls>>

\* self._redis = redis.Redis(); self._redis.flushdb()
Construct(c) ==
    /\ pc[c] = "idle"
    /\ counter' = None
    /\ inputs' = <<>>
    /\ outputs' = <<>>
    /\ kv' = [k \in UUIDs |-> None]
    /\ hist' = <<>>
    /\ spanned' = (\E d \in Threads : pc[d] \in InCall)
    /\ out' = Finished("__init__", "-", "-", None, Ret(None), <<>>, NoReads)
    /\ UNCHANGED <<pc, loc, issued, nCalls>>

\* ------------------------------------------------- count_calls.invoker
\* Variant: the wrapped method is entered without the increment.
CountIncr_Skip(c, data) ==
    /\ pc[c] = "idle"
    /\ nCalls < MaxCalls
    /\ nCalls' = nCalls + 1
    /\ loc' = [loc EXCEPT ![c] = [BlankLoc EXCEPT !.arg = data,
                                                  !.id = nCalls + 1]]
    /\ pc' = [pc EXCEPT ![c] = "record_input"]
    /\ out' = NoOut
    /\ UNCHANGED <<counter, inputs, outputs, kv, issued, hist, spanned>>

\* self._redis.incr(method.__qualname__), then the wrapped method is entered.
CountIncr(c, data) ==
    /\ pc[c] = "idle"
    /\ nCalls < MaxCalls
    /\ counter' = RedisIncr(counter)
    /\ nCalls' = nCalls + 1
    /\ loc' = [loc EXCEPT ![c] = [BlankLoc EXCEPT !.arg = data,
                                                  !.id = nCalls + 1]]
    /\ pc' = [pc EXCEPT ![c] = "record_input"]
    /\ out' = NoOut
    /\ UNCHANGED <<inputs, outputs, kv, issued, hist, spanned>>

\* self._redis.incr raises ConnectionError: the exception leaves the wrapper
\* and the wrapped method is not entered.
CountIncrFails(c, data) ==
    /\ pc[c] = "idle"
    /\ nCalls < MaxCalls
    /\ nCalls' = nCalls + 1
    /\ hist' = Append(hist, [id |-> nCalls + 1, data |-> data, key |-> None,
                             res |-> Raise("ConnectionError"),
                             at |-> "incr"])
    /\ out' = Finished("store", "-", "-", None, Raise("ConnectionError"),
                       <<>>, NoReads)
    /\ UNCHANGED <<counter, inputs, outputs, kv, pc, loc, issued, spanned>>

\* ------------------------------------------------- call_history.invoker
\* Variant: the input is not appended.
RecordInput_Skip(c) ==
    /\ pc[c] = "record_input"
    /\ pc' = [pc EXCEPT ![c] = "store_body"]
    /\ out' = NoOut
    /\ UNCHANGED <<counter, inputs, outputs, kv, loc, issued, nCalls, hist,
                   spanned>>

\* self._redis.rpush(key_inp, str(args))
RecordInput(c) ==
    /\ pc[c] = "record_input"
    /\ inputs' = RedisRpush(inputs,
                    [val |-> Encode(VStr(StrArgs(loc[c].arg))),
                     by |-> loc[c].id])
    /\ pc' = [pc EXCEPT ![c] = "store_body"]
    /\ out' = NoOut
    /\ UNCHANGED <<counter, outputs, kv, loc, issued, nCalls, hist, spanned>>

\* self._redis.rpush(key_inp, ...) raises ConnectionError: the exception
\* leaves both wrappers before the method is called.
RecordInputFails(c) ==
    /\ pc[c] = "record_input"
    /\ hist' = Append(hist,
                  CallRecord(c, Raise("ConnectionError"), "record_input"))
    /\ out' = Finished("store", "-", "-", None, Raise("ConnectionError"),
                       <<>>, NoReads)
    /\ loc' = [loc EXCEPT ![c] = BlankLoc]
    /\ pc' = [pc EXCEPT ![c] = "idle"]
    /\ UNCHANGED <<counter, inputs, outputs, kv, issued, nCalls, spanned>>

\* ------------------------------------------------------------ Cache.store
\* key = str(uuid.uuid4()); self._redis.set(key, data).  set raises
\* DataError for a value redis-py cannot encode, and may raise
\* ConnectionError; the exception leaves both wrappers.
StoreBody(c) ==
    /\ pc[c] = "store_body"
    /\ LET k == UuidText(issued + 1) IN
         /\ issued' = issued + 1
         /\ \/ /\ loc[c].arg.t \in Encodable
               /\ kv' = [kv EXCEPT ![k] = Encode(loc[c].arg)]
               /\ loc' = [loc EXCEPT ![c].key = VStr(k)]
               /\ pc' = [pc EXCEPT ![c] = "record_output"]
               /\ out' = NoOut
               /\ UNCHANGED hist
            \/ /\ \E e \in {"DataError", "ConnectionError"} :
                    /\ (e = "DataError") <=> (loc[c].arg.t \notin Encodable)
                    /\ hist' = Append(hist, CallRecord(c, Raise(e), "body"))
                    /\ out' = Finished("store", "-", "-", None, Raise(e),
                                       <<>>, NoReads)
               /\ loc' = [loc EXCEPT ![c] = BlankLoc]
               /\ pc' = [pc EXCEPT ![c] = "idle"]
               /\ UNCHANGED kv
    /\ UNCHANGED <<counter, inputs, outputs, nCalls, spanned>>

\* Variant: the wrapper does not return the output.
RecordOutput_ReturnsNone(c) ==
    /\ pc[c] = "record_output"
    /\ outputs' = RedisRpush(outputs,
                     [val |-> Encode(loc[c].key), by |-> loc[c].id])
    /\ hist' = Append(hist, CallRecord(c, Ret(None), "-"))
    /\ out' = Finished("store", "-", "-", None, Ret(None), <<>>, NoReads)
    /\ loc' = [loc EXCEPT ![c] = BlankLoc]
    /\ pc' = [pc EXCEPT ![c] = "idle"]
    /\ UNCHANGED <<counter, inputs, kv, issued, nCalls, spanned>>

\* Variant: the argument is appended to the outputs list instead of the
\* output.
RecordOutput_StoresData(c) ==
    /\ pc[c] = "record_output"
    /\ outputs' = RedisRpush(outputs,
                     [val |-> Encode(loc[c].arg), by |-> loc[c].id])
    /\ hist' = Append(hist, CallRecord(c, Ret(loc[c].key), "-"))
    /\ out' = Finished("store", "-", "-", None, Ret(loc[c].key), <<>>,
                       NoReads)
    /\ loc' = [loc EXCEPT ![c] = BlankLoc]
    /\ pc' = [pc EXCEPT ![c] = "idle"]
    /\ UNCHANGED <<counter, inputs, kv, issued, nCalls, spanned>>

\* self._redis.rpush(key_outp, output); return output (twice, through both
\* wrappers).
RecordOutput(c) ==
    /\ pc[c] = "record_output"
    /\ outputs' = RedisRpush(outputs,
                     [val |-> Encode(loc[c].key), by |-> loc[c].id])
    /\ hist' = Append(hist, CallRecord(c, Ret(loc[c].key), "-"))
    /\ out' = Finished("store", "-", "-", None, Ret(loc[c].key), <<>>,
                       NoReads)
    /\ loc' = [loc EXCEPT ![c] = BlankLoc]
    /\ pc' = [pc EXCEPT ![c] = "idle"]
    /\ UNCHANGED <<counter, inputs, kv, issued, nCalls, spanned>>

\* self._redis.rpush(key_outp, output) raises ConnectionError: the value is
\* stored, the output is not recorded and the caller gets the exception.
RecordOutputFails(c) ==
    /\ pc[c] = "record_output"
    /\ hist' = Append(hist,
                  CallRecord(c, Raise("ConnectionError"), "record_output"))
    /\ out' = Finished("store", "-", "-", None, Raise("ConnectionError"),
                       <<>>, NoReads)
    /\ loc' = [loc EXCEPT ![c] = BlankLoc]
    /\ pc' = [pc EXCEPT ![c] = "idle"]
    /\ UNCHANGED <<counter, inputs, outputs, kv, issued, nCalls, spanned>>

\* -------------------------------------------------------------- Cache.get
\* fn(data) for the transforms callers pass.
ApplyFn(fn, data) ==
    CASE fn = "int" -> PyInt(data)
      [] fn = "str" -> Ret(VStr(PyStr(data)))
      [] OTHER -> Decode(data)

\* Variant: the client decodes responses to text before get returns them.
CacheGet_Decoded(db, key, fn) ==
    LET raw == db[key]
        data == IF raw = None THEN None ELSE VStr(raw.v)
    IN  IF fn # "none" THEN ApplyFn(fn, data) ELSE Ret(data)

\* data = self._redis.get(key); return fn(data) if fn is not None else data
CacheGet(db, key, fn) ==
    LET data == db[key]
    IN  IF fn # "none" THEN ApplyFn(fn, data) ELSE Ret(data)

\* Cache.get_str: get, None check, str(data).
CacheGetStr(db, key) ==
    LET r == CacheGet(db, key, "none")
    IN  IF r.val = None THEN Ret(None) ELSE Ret(VStr(PyStr(r.val)))

\* The module-level function get_int(self, key): get, None check, int(data).
get_int(db, key) ==
    LET r == CacheGet(db, key, "none")
    IN  IF r.val = None THEN Ret(None) ELSE PyInt(r.val)

\* cache.get_int(key): attribute lookup on the Cache instance, then the call.
FacadeGetIntResult(db, key) ==
    IF "get_int" \in CacheMethods THEN get_int(db, key)
    ELSE Raise("AttributeError")

ReadFrame ==
    UNCHANGED <<counter, inputs, outputs, kv, pc, loc, issued, nCalls, hist,
                spanned>>

Get(c, k, fn) ==
    /\ pc[c] = "idle"
    /\ out' = Finished("get", k, fn, kv[k], CacheGet(kv, k, fn), <<>>,
                       NoReads)
    /\ ReadFrame

GetStr(c, k) ==
    /\ pc[c] = "idle"
    /\ out' = Finished("get_str", k, "-", kv[k], CacheGetStr(kv, k), <<>>,
                       NoReads)
    /\ ReadFrame

\* cache.get_int(key)
FacadeGetInt(c, k) ==
    /\ pc[c] = "idle"
    /\ out' = Finished("Cache.get_int", k, "-", kv[k],
                       FacadeGetIntResult(kv, k), <<>>, NoReads)
    /\ ReadFrame

\* get_int(cache, key)
ModuleGetInt(c, k) ==
    /\ pc[c] = "idle"
    /\ out' = Finished("get_int", k, "-", kv[k], get_int(kv, k), <<>>,
                       NoReads)
    /\ ReadFrame

\* ----------------------------------------------------------------- replay
Min(a, b) == IF a < b THEN a ELSE b

\* zip(func_inputs, func_outputs)
Zip(a, b) == [i \in 1..Min(Len(a), Len(b)) |-> <<a[i], b[i]>>]

\* '{} was called {} times:'.format(func_name, func_call_count)
SummaryLine(count) ==
    QualName \o " was called " \o PyStr(count) \o " times:"

\* func_output.decode("utf-8") if isinstance(func_output, bytes)
\* else func_output
OutputText(x) == IF x.t = "bytes" THEN Decode(x).val.v ELSE PyStr(x)

\* '{}(*{}) -> {}'.format(func_name, func_input.decode("utf-8"), ...)
CallLine(pair) ==
    QualName \o "(*" \o Decode(pair[1]).val.v \o ") -> "
        \o OutputText(pair[2])

CallLines(ins, outs) ==
    LET z == Zip(ins, outs) IN [i \in 1..Len(z) |-> CallLine(z[i])]

\* Variant: lrange(key, 0, -2), which leaves out the last entry.
RedisLrange_DropLast(list) == [i \in 1..(Len(list) - 1) |-> list[i].val]

\* r_storage.lrange(key, 0, -1): the whole list, in stored order.
RedisLrange(list) == [i \in 1..Len(list) |-> list[i].val]

\* replay(cache.store) up to r_storage.exists(func_name): the guards on fn
\* and on the instance's _redis pass for a bound method of a Cache.
ReplayExists(c) ==
    /\ pc[c] = "idle"
    /\ loc' = [loc EXCEPT ![c] = [BlankLoc EXCEPT !.rcount = VInt(0)]]
    /\ pc' = [pc EXCEPT ![c] = IF RedisExists(counter) # 0
                                THEN "replay_get" ELSE "replay_inputs"]
    /\ out' = NoOut
    /\ UNCHANGED <<counter, inputs, outputs, kv, issued, nCalls, hist,
                   spanned>>

\* Variant: the counter is read with GETDEL, which removes the key.
ReplayGet_GetDel(c) ==
    /\ pc[c] = "replay_get"
    /\ LET data == RedisGetCounter(counter)
           r == PyInt(IF data = None THEN VInt(0) ELSE data)
       IN  /\ loc' = [loc EXCEPT ![c].rcount = r.val,
                                 ![c].seenCount = counter]
           /\ pc' = [pc EXCEPT ![c] = "replay_inputs"]
           /\ out' = NoOut
    /\ counter' = None
    /\ UNCHANGED <<inputs, outputs, kv, issued, nCalls, hist, spanned>>

\* func_call_count = int(r_storage.get(func_name) or 0)
ReplayGet(c) ==
    /\ pc[c] = "replay_get"
    /\ LET data == RedisGetCounter(counter)
           r == PyInt(IF data = None THEN VInt(0) ELSE data)
       IN  IF r.kind = "return"
           THEN /\ loc' = [loc EXCEPT ![c].rcount = r.val,
                                      ![c].seenCount = counter]
                /\ pc' = [pc EXCEPT ![c] = "replay_inputs"]
                /\ out' = NoOut
           ELSE /\ loc' = [loc EXCEPT ![c] = BlankLoc]
                /\ pc' = [pc EXCEPT ![c] = "idle"]
                /\ out' = Finished("replay", "-", "-", None, r, <<>>,
                                   NoReads)
    /\ UNCHANGED <<counter, inputs, outputs, kv, issued, nCalls, hist,
                   spanned>>

\* print of the summary line; func_inputs = r_storage.lrange(in_key, 0, -1)
ReplayInputs(c) ==
    /\ pc[c] = "replay_inputs"
    /\ loc' = [loc EXCEPT ![c].printed = <<SummaryLine(loc[c].rcount)>>,
                          ![c].rins = RedisLrange(inputs),
                          ![c].seenIns = inputs]
    /\ pc' = [pc EXCEPT ![c] = "replay_outputs"]
    /\ out' = NoOut
    /\ UNCHANGED <<counter, inputs, outputs, kv, issued, nCalls, hist,
                   spanned>>

\* Variant: the outputs list is deleted after it was read.
ReplayOutputs_Consumes(c) ==
    /\ pc[c] = "replay_outputs"
    /\ LET outs == RedisLrange(outputs)
       IN  out' = Finished("replay", "-", "-", None, Ret(None),
                           loc[c].printed \o CallLines(loc[c].rins, outs),
                           [count |-> loc[c].seenCount,
                            ins |-> loc[c].seenIns, outs |-> outputs])
    /\ outputs' = <<>>
    /\ loc' = [loc EXCEPT ![c] = BlankLoc]
    /\ pc' = [pc EXCEPT ![c] = "idle"]
    /\ UNCHANGED <<counter, inputs, kv, issued, nCalls, hist, spanned>>

\* func_outputs = r_storage.lrange(out_key, 0, -1); the loop over zip prints
\* the call lines.
ReplayOutputs(c) ==
    /\ pc[c] = "replay_outputs"
    /\ LET outs == RedisLrange(outputs)
       IN  out' = Finished("replay", "-", "-", None, Ret(None),
                           loc[c].printed \o CallLines(loc[c].rins, outs),
                           [count |-> loc[c].seenCount,
                            ins |-> loc[c].seenIns, outs |-> outputs])
    /\ loc' = [loc EXCEPT ![c] = BlankLoc]
    /\ pc' = [pc EXCEPT ![c] = "idle"]
    /\ UNCHANGED <<counter, inputs, outputs, kv, issued, nCalls, hist,
                   spanned>>

\* ------------------------------------------------------------------- next
\* The steps of an instrumented call with an argument among values, and
\* facade construction.
CallStepWith(c, values) ==
    \/ Construct(c)
    \/ \E data \in values : CountIncr(c, data)
    \/ \E data \in values : CountIncrFails(c, data)
    \/ RecordInput(c)
    \/ RecordInputFails(c)
    \/ StoreBody(c)
    \/ RecordOutput(c)
    \/ RecordOutputFails(c)

CallStep(c) == CallStepWith(c, DataValues)

\* The read operations.
ReadStep(c) ==
    \/ \E k \in UUIDs, fn \in Transforms : Get(c, k, fn)
    \/ \E k \in UUIDs : GetStr(c, k)
    \/ \E k \in UUIDs : FacadeGetInt(c, k)
    \/ \E k \in UUIDs : ModuleGetInt(c, k)

\* The steps of replay.
ReplayStep(c) ==
    \/ ReplayExists(c)
    \/ ReplayGet(c)
    \/ ReplayInputs(c)
    \/ ReplayOutputs(c)

\* Several independent callers against one store, all operations.
Next == \E c \in Threads : CallStep(c) \/ ReadStep(c) \/ ReplayStep(c)

Spec == Init /\ [][Next]_vars

\* One caller: operations run one after another.
NextSeq == CallStep("c1") \/ ReadStep("c1") \/ ReplayStep("c1")

SpecSeq == Init /\ [][NextSeq]_vars

\* Several independent callers that only store and construct.
NextCalls == \E c \in Threads : CallStepWith(c, SharedDataValues)

SpecCalls == Init /\ [][NextCalls]_vars

\* Several independent callers that store, construct and replay.
NextReplay ==
    \E c \in Threads : CallStepWith(c, SharedDataValues) \/ ReplayStep(c)

SpecReplay == Init /\ [][NextReplay]_vars

TypeOK ==
    /\ counter.t \in {"NoneType", "int"}
    /\ nCalls \in 0..MaxCalls
    /\ issued \in 0..nCalls
    /\ Len(inputs) <= MaxCalls
    /\ Len(outputs) <= MaxCalls

\* ============================================================== properties
NoCallRunning == \A c \in Threads : pc[c] \notin InCall

CounterValue == IF counter = None THEN 0 ELSE counter.v

IsReturn(e) == e.res.kind = "return"

IsFailure(e) == e.res.kind = "raise"

\* The finished calls all returned or failed inside the body of store.
OnlyBodyFailures == \A i \in 1..Len(hist) : hist[i].at \in {"-", "body"}

\* The finished calls that returned, in the order they finished.
Returned == SelectSeq(hist, IsReturn)

\* construct, store("foo"), store(123), both returned, nothing else stored.
FooThen123 ==
    /\ Len(hist) = 2
    /\ hist[1].data = VStr("foo") /\ IsReturn(hist[1])
    /\ hist[2].data = VInt(123) /\ IsReturn(hist[2])

\* C1: with one caller, whenever no store call is running, the counter under
\* "Cache.store" equals the number of store calls made since the facade was
\* constructed, whether they returned or failed inside the method body.
C1_CounterEqualsInvocations ==
    (NoCallRunning /\ OnlyBodyFailures) => CounterValue = Len(hist)

C1_Witness ==
    /\ NoCallRunning
    /\ OnlyBodyFailures
    /\ Len(hist) = 2
    /\ IsFailure(hist[1])
    /\ IsReturn(hist[2])
    /\ counter = VInt(2)

\* C2 as stated: after n finished calls both logs have length n and the
\* i-th outputs entry is the value returned by the i-th call.
C2_BothLogsHaveOneEntryPerCall ==
    (NoCallRunning /\ OnlyBodyFailures) =>
        /\ Len(inputs) = Len(hist)
        /\ Len(outputs) = Len(hist)
        /\ \A i \in 1..Len(hist) :
              /\ IsReturn(hist[i])
              /\ outputs[i].val = Encode(hist[i].res.val)

\* C2 amended: with one caller, after n finished calls of which r returned,
\* the inputs log has n entries and the outputs log has r entries, and the
\* i-th outputs entry is the stored form of the value returned by the i-th
\* call that returned.
C2_OutputsOnlyForReturnedCalls ==
    (NoCallRunning /\ OnlyBodyFailures) =>
        /\ Len(inputs) = Len(hist)
        /\ Len(outputs) = Len(Returned)
        /\ \A i \in 1..Len(Returned) :
              outputs[i].val = Encode(Returned[i].res.val)

C2_Witness ==
    /\ NoCallRunning
    /\ OnlyBodyFailures
    /\ Len(hist) = 2
    /\ IsFailure(hist[1])
    /\ IsReturn(hist[2])
    /\ Len(inputs) = 2
    /\ Len(outputs) = 1
    /\ outputs[1].val = VBytes(hist[2].res.val.v)

\* C3: when concurrent callers have all completed their store calls (every
\* call returned, and no construction ran during a call), the N-th inputs
\* entry and the N-th outputs entry were appended by the same call.
C3_PairedByPosition ==
    (NoCallRunning /\ ~spanned /\ \A i \in 1..Len(hist) : IsReturn(hist[i]))
        => /\ Len(inputs) = Len(outputs)
           /\ \A n \in 1..Len(inputs) : inputs[n].by = outputs[n].by

\* C4 as stated: in every state, also in the middle of a call, the two logs
\* have the same length.
C4_LogsAlwaysSameLength == Len(inputs) = Len(outputs)

FailedAfterInput(e) == e.at \in {"body", "record_output"}

NumFailed == Len(SelectSeq(hist, FailedAfterInput))

NumMidCall == Cardinality({c \in Threads : pc[c] \in MidCall})

\* C4 amended: unless a construction ran during a call, in every state the
\* inputs log is longer than the outputs log by exactly the number of calls
\* that appended their input and not their output: the calls between the
\* two appends and the calls that failed after the input append (inside
\* the method body or at the output append).
C4_LengthsDifferByOpenCalls ==
    ~spanned => Len(inputs) - Len(outputs) = NumMidCall + NumFailed

C4_Witness ==
    /\ ~spanned
    /\ Len(outputs) = 1
    /\ Len(inputs) = 2
    /\ NumMidCall = 1
    /\ NumFailed = 0

\* get(key) with no transform just finished, for the key that the i-th
\* finished store call returned.
GotStored(i) ==
    /\ out.op = "get"
    /\ out.fn = "none"
    /\ IsReturn(hist[i])
    /\ hist[i].res.val = VStr(out.key)

\* C5 as stated: get(store(v)) with no transform returns v.
C5_RoundTripIdentity ==
    \A i \in 1..Len(hist) : GotStored(i) => out.res = Ret(hist[i].data)

\* C5 amended: get(store(v)) with no transform returns the byte sequence
\* the store keeps for v, which equals v only when v is a byte sequence.
C5_RoundTripBytes ==
    \A i \in 1..Len(hist) :
        GotStored(i) =>
            /\ out.res = Ret(Encode(hist[i].data))
            /\ (out.res = Ret(hist[i].data)) <=> (hist[i].data.t = "bytes")

C5_Witness ==
    \E i \in 1..Len(hist) :
        /\ GotStored(i)
        /\ hist[i].data = VInt(123)
        /\ out.res = Ret(VBytes("123"))

\* C6: get on a key the store does not hold returns None, with or without a
\* transform.
C6_GetMissingReturnsNone ==
    (out.op = "get" /\ out.stored = None) => out.res = Ret(None)

\* C7: cache.get_str(key) and cache.get_int(key) on a key the store does not
\* hold return None.
C7_TypedGetMissingReturnsNone ==
    (out.op \in {"get_str", "Cache.get_int"} /\ out.stored = None)
        => out.res = Ret(None)

\* C8: after k1 = store("foo") and k2 = store(123), cache.get_str(k1) returns
\* "foo" and cache.get_int(k2) returns 123.
C8_ScenarioTypedGets ==
    FooThen123 =>
        /\ (out.op = "get_str" /\ VStr(out.key) = hist[1].res.val)
              => out.res = Ret(VStr("foo"))
        /\ (out.op = "Cache.get_int" /\ VStr(out.key) = hist[2].res.val)
              => out.res = Ret(VInt(123))

\* C9: replay returns normally and prints the summary line with the counter
\* the store held (0 when the key did not exist), then one line for each of
\* the first min(len(inputs), len(outputs)) positions, pairing the i-th
\* inputs entry with the i-th outputs entry the store held.
C9_ReplayRendersCommonPrefix ==
    out.op = "replay" =>
        LET r == out.reads
            n == Min(Len(r.ins), Len(r.outs))
            count == IF r.count = None THEN "0" ELSE IntToText(r.count.v)
        IN  /\ out.res = Ret(None)
            /\ Len(out.printed) = 1 + n
            /\ out.printed[1] = "Cache.store was called " \o count
                                    \o " times:"
            /\ \A i \in 1..n :
                  out.printed[i + 1] = "Cache.store(*" \o r.ins[i].val.v
                                           \o ") -> " \o r.outs[i].val.v

C9_Witness ==
    /\ out.op = "replay"
    /\ Len(out.reads.ins) = 1
    /\ Len(out.reads.outs) = 2
    /\ Len(out.printed) = 2

\* C10 as stated: after store("foo") and store(123), replay prints the
\* count 2 and the lines ('foo',) -> foo and (123,) -> 123.
C10_ReplayShowsData ==
    (FooThen123 /\ out.op = "replay") =>
        out.printed = <<"Cache.store was called 2 times:",
                        "Cache.store(*('foo',)) -> foo",
                        "Cache.store(*(123,)) -> 123">>

\* C10 amended: after store("foo") and store(123), replay prints the count 2
\* and two lines in call order, ('foo',) with the key the first call
\* returned and (123,) with the key the second call returned.
C10_ReplayShowsKeys ==
    (FooThen123 /\ out.op = "replay") =>
        out.printed = <<"Cache.store was called 2 times:",
                        "Cache.store(*('foo',)) -> " \o hist[1].res.val.v,
                        "Cache.store(*(123,)) -> " \o hist[2].res.val.v>>

C10_Witness ==
    /\ FooThen123
    /\ out.op = "replay"
    /\ Len(out.printed) = 3
    /\ hist[1].res.val # hist[2].res.val

\* The positions of a caller inside replay.
ReplayPcs == {"replay_get", "replay_inputs", "replay_outputs"}

\* The step is a step of replay.
IsReplayStep ==
    \E c \in Threads :
        /\ pc'[c] # pc[c]
        /\ pc[c] \in ReplayPcs \/ pc'[c] \in ReplayPcs

\* Everything the store holds.
StoreState == <<counter, inputs, outputs, kv>>

\* The text replay prints for a store holding the given counter and lists.
RenderedFrom(cnt, ins, outs) ==
    LET n == Min(Len(ins), Len(outs))
        count == IF cnt = None THEN "0" ELSE IntToText(cnt.v)
    IN  <<"Cache.store was called " \o count \o " times:">>
            \o [i \in 1..n |-> "Cache.store(*" \o ins[i].val.v \o ") -> "
                                   \o outs[i].val.v]

\* C11: no step of replay changes the counter, the two logs or a stored
\* value, and with one caller what a replay prints is determined by the
\* counter and logs the store holds, which replay left as they were; so a
\* second replay with no call or construction in between prints the same.
C11_ReplayReadsOnly ==
    [][/\ IsReplayStep => StoreState' = StoreState
       /\ out'.op = "replay"
             => out'.printed = RenderedFrom(counter, inputs, outputs)]_vars

C11_Witness ==
    /\ out.op = "replay"
    /\ counter = VInt(2)
    /\ Len(inputs) = 2
    /\ Len(outputs) = 1
    /\ Len(out.printed) = 2

\* The store holds no key at all.
StoreEmpty ==
    /\ counter = None
    /\ inputs = <<>>
    /\ outputs = <<>>
    /\ \A k \in UUIDs : kv[k] = None

\* C12: in the state right after a facade construction the store holds
\* nothing, whichever caller's facade wrote the entries and whether or not
\* another caller is in the middle of a call.
C12_EmptyAfterConstruction == out.op = "__init__" => StoreEmpty

C12_Witness ==
    /\ out.op = "__init__"
    /\ \E c \in Threads : pc[c] = "record_output" /\ loc[c].key # None
    /\ StoreEmpty

\* C13: the counting step never fails the caller: no store call ends with
\* an exception raised by the counting step, before the wrapped method was
\* entered.
C13_CountingNeverFailsCaller ==
    \A i \in 1..Len(hist) : hist[i].at # "incr"

\* The values the calls finished since the construction would have left in
\* the store had their bodies run without the wrappers.
ValuesOfBodies ==
    [k \in UUIDs |->
        IF \E i \in 1..Len(hist) : hist[i].key = VStr(k)
        THEN Encode(hist[CHOOSE i \in 1..Len(hist) :
                             hist[i].key = VStr(k)].data)
        ELSE None]

InstrumentationKeys ==
    {QualName, QualName \o ":inputs", QualName \o ":outputs"}

HasInput(id) == \E n \in 1..Len(inputs) : inputs[n].by = id

\* The call with the given number has an entry in the outputs log.
HasOutput(id) == \E n \in 1..Len(outputs) : outputs[n].by = id

\* C17: unless a construction ran during a call, a call about to run or
\* running the body of store has its input in the log and no output, a
\* call whose body failed has left its input and no output, a call that
\* returned has both, and every output in the log has its input in the log.
C17_InputBeforeBodyBeforeOutput ==
    ~spanned =>
        /\ \A c \in Threads :
              pc[c] = "store_body"
                  => HasInput(loc[c].id) /\ ~HasOutput(loc[c].id)
        /\ \A i \in 1..Len(hist) :
              /\ hist[i].at = "body"
                    => HasInput(hist[i].id) /\ ~HasOutput(hist[i].id)
              /\ IsReturn(hist[i])
                    => HasInput(hist[i].id) /\ HasOutput(hist[i].id)
        /\ \A n \in 1..Len(outputs) : HasInput(outputs[n].by)

C17_Witness ==
    /\ ~spanned
    /\ Len(hist) = 1
    /\ hist[1].at = "body"
    /\ HasInput(hist[1].id)
    /\ \E c \in Threads : pc[c] = "record_output"
    /\ Len(outputs) = 0

\* The finished calls that got past the counting step.
NumCounted == Len(SelectSeq(hist, LAMBDA e : e.at # "incr"))

NumInCall == Cardinality({c \in Threads : pc[c] \in InCall})

\* C18: unless a construction ran during a call, the counter counts every
\* call that got past the counting step, running, returned or failed at a
\* later step; a call is counted before its input is appended, its input
\* is appended before its value is written, and its value is written before
\* its output is appended.
C18_CountedBeforeRecorded ==
    ~spanned =>
        /\ CounterValue = NumInCall + NumCounted
        /\ \A c \in Threads :
              /\ pc[c] = "record_input"
                    => /\ CounterValue >= 1
                       /\ ~HasInput(loc[c].id)
                       /\ loc[c].key = None
              /\ pc[c] = "store_body"
                    => /\ HasInput(loc[c].id)
                       /\ loc[c].key = None
              /\ pc[c] = "record_output"
                    => /\ HasInput(loc[c].id)
                       /\ kv[loc[c].key.v] = Encode(loc[c].arg)
                       /\ ~HasOutput(loc[c].id)

C18_Witness ==
    /\ ~spanned
    /\ counter = VInt(2)
    /\ Len(hist) = 1
    /\ hist[1].at = "record_output"
    /\ \E c \in Threads : pc[c] = "store_body"

\* C19: from one state to the next the counter never decreases, whichever
\* caller takes the step, except in a facade construction, which leaves the
\* counter key absent.
C19_CounterMonotonic ==
    [][/\ CounterValue' >= CounterValue \/ out'.op = "__init__"
       /\ out'.op = "__init__" => counter' = None]_vars

C19_Witness ==
    /\ counter = VInt(2)
    /\ \E c \in Threads : pc[c] = "replay_inputs"
    /\ \E c \in Threads : pc[c] = "record_output"

\* C20 as stated: in every state counter >= len(inputs) >= len(outputs).
C20_CounterInputsOutputsOrdered ==
    /\ CounterValue >= Len(inputs)
    /\ Len(inputs) >= Len(outputs)

\* C20 amended: the same, in the states where the most recent construction
\* did not run during a call.
C20_OrderedUnlessFlushedMidCall ==
    ~spanned =>
        /\ CounterValue >= Len(inputs)
        /\ Len(inputs) >= Len(outputs)

C20_Witness ==
    /\ ~spanned
    /\ CounterValue = 2
    /\ Len(inputs) = 1
    /\ Len(outputs) = 0
    /\ NoCallRunning

====
